---- MODULE Spec2Model ----
(***************************************************************************)
(* Model of scripts/data_record.py: the recorder that takes synchronized   *)
(* message tuples from the bus (callback), hands them over a bounded queue *)
(* to a timer thread (timer_callback) which accumulates them in            *)
(* `container` and writes one HDF5 file per chunk (write_to_hdf5,          *)
(* init_hdf5), and the main thread that starts everything and performs the *)
(* last write when the user stops the recording.                           *)
(*                                                                         *)
(* Three contexts run concurrently: the bus delivery thread (Callback),    *)
(* the rospy.Timer thread (Timer* actions) and the main thread (Main*      *)
(* actions).  The timer thread and the main thread both execute            *)
(* write_to_hdf5; it is modelled one loop iteration per step, so that the  *)
(* interleavings of the two threads are the ones the interpreter allows.   *)
(***************************************************************************)
EXTENDS Integers, Sequences, FiniteSets, TLC

\* ---------------------------------------------------------------- bounds
MaxChunk == 2
MaxArrivals == 3
MaxWall == 1

\* ------------------------------------------------------- configuration
\* argparse values (topic names abbreviated)
stereoL_topic == "/stereoL"
depth_topic == "/depth"
stereoR_topic == "None"
segm_topic == "None"

\* objects returned by init_ambf, in dictionary order; `camera` tells
\* whether the name contains 'camera'
objects ==
  << [name |-> "cameraL", camera |-> TRUE],
     [name |-> "drill", camera |-> FALSE] >>

PoseTopic(subname) ==
  CASE subname = "drill" -> "/drill"
    [] subname = "cameras/main_camera" -> "/main_camera"
    [] OTHER -> "/other"

PoseKey(name) ==
  CASE name = "drill" -> "pose_drill"
    [] name = "main_camera" -> "pose_main_camera"
    [] OTHER -> "pose_other"

OtherTopics == {"/rosout", "/rosout_agg"}
ConfiguredTopics == {stereoL_topic, depth_topic, PoseTopic("drill")}

\* the lists rospy.get_published_topics() may return at startup
ActiveTopicSets ==
  { OtherTopics,
    {stereoL_topic, depth_topic},
    OtherTopics \cup {stereoL_topic},
    OtherTopics \cup {depth_topic, PoseTopic("drill")},
    OtherTopics \cup ConfiguredTopics }

\* --chunk_size is any integer argparse accepts; zero is one of them
ChunkSizes == 0..MaxChunk

VARIABLES
  chunk,          \* args.chunk_size
  active_topics,  \* what the bus reports as published at startup
  container,      \* OrderedDict: sequence of [key, val]
  subscribers,    \* the list handed to the synchronizer (topics)
  bus_subs,       \* topics for which a message_filters.Subscriber was built
  data_queue,     \* Queue(chunk * 2)
  num_data,       \* global record count
  files,          \* every h5py.File created so far, in creation order
  f,              \* global file handle: index into files
  pc,             \* position of the main and of the timer thread
  data_dict,      \* timer_callback's dequeued record
  a_idx,          \* timer_callback's position in data_dict.items()
  w_idx,          \* write_to_hdf5's position in container.items(), per thread
  data_group,     \* write_to_hdf5's local data_group, per thread
  is_shutdown,    \* rospy.core.is_shutdown()
  clock,          \* stamp of the latest synchronized tuple delivered
  wall,           \* the second time.strftime read at the latest init_hdf5
  last_log,       \* the latest line handed to the logger
  dropped,        \* history: stamps of the records put_nowait refused
  taken,          \* history: per file, the records dequeued while it was f
  sync_arg,       \* --sync as given on the command line, or "absent"
  output_dir,     \* args.output_dir
  ats,            \* the synchronizer main() built
  dirs,           \* the directories that exist on disk
  history,        \* the synchronizer's buffered messages, per subscriber
  last_stamp,     \* stamp of the latest message of each subscriber's topic
  emitted,        \* history: the message tuples the synchronizer emitted
  script,         \* arrivals still to come, when they are scripted
  arrived         \* number of single messages the bus has delivered

vars ==
  << chunk, active_topics, container, subscribers, bus_subs, data_queue,
     num_data, files, f, pc, data_dict, a_idx, w_idx, data_group,
     is_shutdown, clock, wall, last_log, dropped, taken, sync_arg,
     output_dir, ats, dirs, history, last_stamp, emitted, script, arrived >>

\* what the recorder itself never changes: its arguments and the bus side
env_vars ==
  << sync_arg, output_dir, history, last_stamp, emitted, script, arrived >>

\* ------------------------------------------------------------- decoders
None == <<"None">>

to_sec(stamp) == <<"sec", stamp>>

image_gen(image_msg) ==
  IF image_msg.ok THEN <<"bgr8", image_msg.topic, image_msg.stamp>> ELSE None

depth_gen(depth_msg) == <<"depth", depth_msg.topic, depth_msg.stamp>>

pose_gen(pose_msg) == <<"pose", pose_msg.topic, pose_msg.stamp>>

IsImageKey(key) == key \in {"l_img", "r_img", "segm"}
IsPoseKey(key) == key \in {"pose_drill", "pose_main_camera", "pose_other"}

\* ------------------------------------------------------------- helpers
Keys(c) == [i \in 1..Len(c) |-> c[i].key]

HasKey(c, key) == \E i \in 1..Len(c) : c[i].key = key

KeyIndex(c, key) == CHOOSE i \in 1..Len(c) : c[i].key = key

HasNone(val) == \E i \in 1..Len(val) : val[i] = None

\* ------------------------------------------------ startup: lines 188-252
\* state threaded through setup_subscriber
Setup0 ==
  [subs |-> <<>>, cont |-> << [key |-> "time", val |-> <<>>] >>, bus |-> {}]

\* mutant: a camera block puts its subscriber at the front of the list
camera_block_front(st, topic, key) ==
  IF topic # "None"
    THEN IF topic \in active_topics
           THEN [subs |-> <<topic>> \o st.subs,
                 cont |-> Append(st.cont, [key |-> key, val |-> <<>>]),
                 bus |-> st.bus \cup {topic}]
           ELSE st
    ELSE st

\* one of the four camera blocks (lines 197-231)
camera_block(st, topic, key) ==
  IF topic # "None"
    THEN IF topic \in active_topics
           THEN [subs |-> Append(st.subs, topic),
                 cont |-> Append(st.cont, [key |-> key, val |-> <<>>]),
                 bus |-> st.bus \cup {topic}]
           ELSE st
    ELSE st

\* mutant: the pose subscriber joins the list before the topic is looked up
pose_block_unchecked(st, obj) ==
  IF obj.camera /\ obj.name # "main_camera"
    THEN st
    ELSE LET subname == IF obj.camera THEN "cameras/main_camera" ELSE obj.name
             topic == PoseTopic(subname)
         IN IF topic \in active_topics
              THEN [subs |-> Append(st.subs, topic),
                    cont |-> Append(st.cont,
                                    [key |-> PoseKey(obj.name), val |-> <<>>]),
                    bus |-> st.bus \cup {topic}]
              ELSE [st EXCEPT !.bus = @ \cup {topic},
                              !.subs = Append(@, topic)]

\* one iteration of the pose loop (lines 234-249): the Subscriber is built
\* before the topic is looked up in active_topics
pose_block(st, obj) ==
  IF obj.camera /\ obj.name # "main_camera"
    THEN st
    ELSE LET subname == IF obj.camera THEN "cameras/main_camera" ELSE obj.name
             topic == PoseTopic(subname)
         IN IF topic \in active_topics
              THEN [subs |-> Append(st.subs, topic),
                    cont |-> Append(st.cont,
                                    [key |-> PoseKey(obj.name), val |-> <<>>]),
                    bus |-> st.bus \cup {topic}]
              ELSE [st EXCEPT !.bus = @ \cup {topic}]

RECURSIVE pose_loop(_, _)
pose_loop(st, i) ==
  IF i > Len(objects) THEN st ELSE pose_loop(pose_block(st, objects[i]), i + 1)

setup_subscriber ==
  pose_loop(
    camera_block(
      camera_block(
        camera_block(
          camera_block(Setup0, stereoL_topic, "l_img"),
          depth_topic, "depth"),
        stereoR_topic, "r_img"),
      segm_topic, "segm"),
    1)

\* ---------------------------------------------------- files: init_hdf5
\* the directory line 99 writes into, whatever --output_dir says
DataDir == "data"

\* h5py.File("./data/" + time_str + ".hdf5", "w") with the "data" group
\* opened at the second `now`
NewFile(now) == [name |-> now, dir |-> DataDir, open |-> TRUE, data |-> <<>>]

\* lines 95-99: the directory od is made if absent, then the file is
\* created under ./data, which fails when that directory does not exist
init_hdf5(od, now, ds) ==
  [dirs |-> ds \cup {od}, ok |-> DataDir \in ds \cup {od}, file |-> NewFile(now)]

\* ------------------------------------------------------ the hand-off queue
\* Queue(chunk * 2): a maxsize <= 0 makes the queue unbounded
maxsize == chunk * 2

\* mutant: the bound compared one too late
full_off_by_one(q) == maxsize > 0 /\ Len(q) > maxsize

full(q) == maxsize > 0 /\ Len(q) >= maxsize

\* mutant: a full queue swallows the record without raising Full
put_nowait_silent(q, item) ==
  IF full(q) THEN [queue |-> q, raised |-> FALSE]
  ELSE [queue |-> Append(q, item), raised |-> FALSE]

\* mutant: a full queue makes room by dropping its oldest record
put_nowait_drop_oldest(q, item) ==
  IF full(q) THEN [queue |-> Append(Tail(q), item), raised |-> TRUE]
  ELSE [queue |-> Append(q, item), raised |-> FALSE]

\* put_nowait: the queue afterwards, and whether Full was raised
put_nowait(q, item) ==
  IF full(q) THEN [queue |-> q, raised |-> TRUE]
  ELSE [queue |-> Append(q, item), raised |-> FALSE]

\* ------------------------------------------------- callback: lines 123-152
RECURSIVE callback_data(_, _, _, _)
callback_data(inputs, keys, idx, data) ==
  IF idx + 1 > Len(keys) THEN data
  ELSE LET key == keys[idx + 1]
           d1 == IF IsImageKey(key)
                   THEN Append(data, <<key, image_gen(inputs[idx])>>) ELSE data
           d2 == IF key = "depth"
                   THEN Append(d1, <<key, depth_gen(inputs[idx])>>) ELSE d1
           d3 == IF IsPoseKey(key)
                   THEN Append(d2, <<key, pose_gen(inputs[idx])>>) ELSE d2
       IN callback_data(inputs, keys, idx + 1, d3)

\* the record built by lines 133-147
make_data(inputs, keys) ==
  callback_data(inputs, keys, 1, << <<"time", to_sec(inputs[1].stamp)>> >>)

ImageTopics == {stereoL_topic, stereoR_topic, segm_topic} \ {"None"}

Range(s) == {s[i] : i \in 1..Len(s)}

Alive == pc.main \notin {"exited", "crashed"}

\* ------------------------------------------- arguments: lines 301-324
\* --sync is a string whose default is 'True' (lines 322-323)
\* mutant: the default of --sync is 'False'
sync_default_false == "False"

sync_default == "True"

\* lines 367-370: args.sync becomes a boolean
args_sync ==
  (IF sync_arg = "absent" THEN sync_default ELSE sync_arg) \in {"True", "true", "1"}

\* lines 263-268: the synchronizer main() builds
synchronizer ==
  IF args_sync = FALSE THEN "ApproximateTimeSynchronizer"
  ELSE "TimeSynchronizer"

\* the state when main() is entered (lines 350-372): the arguments are
\* parsed, the first file is created by init_hdf5 (line 361), the queue and
\* the container are empty.  `pre` are the directories found on disk, `scr`
\* the arrivals the bus is going to deliver when they are fixed beforehand.
InitState(c, act, sa, od, pre, scr) ==
  /\ chunk = c
  /\ active_topics = act
  /\ sync_arg = sa
  /\ output_dir = od
  /\ ats = "none"
  /\ history = <<>>
  /\ last_stamp = <<>>
  /\ emitted = <<>>
  /\ script = scr
  /\ arrived = 0
  /\ container = <<>>
  /\ subscribers = <<>>
  /\ bus_subs = {}
  /\ data_queue = <<>>
  /\ num_data = 0
  /\ wall = 0
  /\ LET first == init_hdf5(od, 0, pre)
     IN /\ dirs = first.dirs
        /\ IF first.ok
             THEN /\ files = << first.file >>
                  /\ f = 1
                  /\ pc = [main |-> "main", timer |-> "off"]
                  /\ taken = << <<>> >>
             ELSE /\ files = <<>>
                  /\ f = 0
                  /\ pc = [main |-> "crashed", timer |-> "off"]
                  /\ taken = <<>>
  /\ data_dict = <<>>
  /\ a_idx = 0
  /\ w_idx = [main |-> 0, timer |-> 0]
  /\ data_group = [main |-> 0, timer |-> 0]
  /\ is_shutdown = FALSE
  /\ clock = 0
  /\ last_log = ""
  /\ dropped = {}

\* the recorder started without arguments other than the chunk size, in a
\* working directory that has ./data
Init ==
  \E c \in ChunkSizes, act \in ActiveTopicSets :
    InitState(c, act, "absent", DataDir, {DataDir}, <<>>)

\* main(), lines 256-272: the container's time key, the subscribers, the
\* synchronizer and the timer; exit() when at most two topics are active
MainStart ==
  /\ pc.main = "main"
  /\ IF Cardinality(active_topics) <= 2
       THEN /\ pc' = [pc EXCEPT !.main = "exited"]
            /\ container' = Setup0.cont
            /\ last_log' = "Launch simulation before recording!"
            /\ UNCHANGED << subscribers, bus_subs, ats, history, last_stamp >>
       ELSE /\ pc' = [main |-> "recording", timer |-> "idle"]
            /\ container' = setup_subscriber.cont
            /\ subscribers' = setup_subscriber.subs
            /\ bus_subs' = setup_subscriber.bus
            /\ ats' = synchronizer
            /\ history' = [i \in 1..Len(setup_subscriber.subs) |-> <<>>]
            /\ last_stamp' = [i \in 1..Len(setup_subscriber.subs) |-> -1]
            /\ last_log' = "Subscribed to the following topics:"
  /\ UNCHANGED << sync_arg, output_dir, emitted, script, arrived, dirs >>
  /\ UNCHANGED << chunk, active_topics, data_queue, num_data, files, f,
                  data_dict, a_idx, w_idx, data_group, is_shutdown, clock,
                  wall, dropped, taken >>

\* one synchronized tuple delivered to callback; `bad` are the image topics
\* whose message cv_bridge cannot convert
Callback ==
  /\ Alive
  /\ pc.main # "main"
  /\ ~is_shutdown
  /\ Len(subscribers) > 0
  /\ clock < MaxArrivals
  /\ \E bad \in SUBSET (ImageTopics \cap Range(subscribers)) :
       LET inputs == [i \in 1..Len(subscribers) |->
                        [topic |-> subscribers[i], stamp |-> clock + 1,
                         ok |-> subscribers[i] \notin bad]]
           data == make_data(inputs, Keys(container))
           put == put_nowait(data_queue, data)
       IN /\ data_queue' = put.queue
          /\ last_log' = IF put.raised THEN "Queue full" ELSE "msg callback"
          /\ dropped' = IF put.raised THEN dropped \cup {clock + 1} ELSE dropped
  /\ clock' = clock + 1
  /\ UNCHANGED << env_vars, ats, dirs >>
  /\ UNCHANGED << chunk, active_topics, container, subscribers, bus_subs,
                  num_data, files, f, pc, data_dict, a_idx, w_idx, data_group,
                  is_shutdown, wall, taken >>

\* -------------------------------------------- write_to_hdf5: lines 155-165
\* where an exception leaves the thread that ran into it: the timer thread
\* ends, an uncaught exception in the main thread ends the process
Raised(t) == IF t = "timer" THEN "dead" ELSE "crashed"

Returned(t) == IF t = "timer" THEN "init" ELSE "cleanup"

\* line 156: data_group = f["data"], which fails on a closed file
WriteBegin(t) ==
  /\ Alive
  /\ pc[t] = "write"
  /\ IF files[f].open
       THEN /\ pc' = [pc EXCEPT ![t] = "items"]
            /\ data_group' = [data_group EXCEPT ![t] = f]
            /\ w_idx' = [w_idx EXCEPT ![t] = 1]
       ELSE /\ pc' = [pc EXCEPT ![t] = Raised(t)]
            /\ UNCHANGED << data_group, w_idx >>
  /\ UNCHANGED << env_vars, ats, dirs >>
  /\ UNCHANGED << chunk, active_topics, container, subscribers, bus_subs,
                  data_queue, num_data, files, f, data_dict, a_idx,
                  is_shutdown, clock, wall, last_log, dropped, taken >>

\* lines 157-162: one iteration of the loop over container.items().
\* np.stack / create_dataset fail on a None payload, on a closed file and on a
\* dataset name that exists; line 161 reads the dataset back through the
\* global f, which fails if f is no longer the file written to.
WriteItem(t) ==
  /\ Alive
  /\ pc[t] = "items"
  /\ LET i == w_idx[t]
         key == container[i].key
         value == container[i].val
         dg == data_group[t]
         next_pc == IF i = Len(container) THEN "close" ELSE "items"
         next_i == IF i = Len(container) THEN 0 ELSE i + 1
     IN IF Len(value) = 0
          THEN /\ pc' = [pc EXCEPT ![t] = next_pc]
               /\ w_idx' = [w_idx EXCEPT ![t] = next_i]
               /\ UNCHANGED << container, files, last_log >>
          ELSE IF HasNone(value) \/ ~files[dg].open \/ HasKey(files[dg].data, key)
            THEN /\ pc' = [pc EXCEPT ![t] = Raised(t)]
                 /\ w_idx' = [w_idx EXCEPT ![t] = 0]
                 /\ UNCHANGED << container, files, last_log >>
            ELSE /\ files' = [files EXCEPT
                                ![dg].data = Append(@, [key |-> key, val |-> value])]
                 /\ IF dg = f
                      THEN /\ container' = [container EXCEPT ![i].val = <<>>]
                           /\ pc' = [pc EXCEPT ![t] = next_pc]
                           /\ w_idx' = [w_idx EXCEPT ![t] = next_i]
                           /\ last_log' = key
                      ELSE /\ pc' = [pc EXCEPT ![t] = Raised(t)]
                           /\ w_idx' = [w_idx EXCEPT ![t] = 0]
                           /\ UNCHANGED << container, last_log >>
  /\ UNCHANGED << env_vars, ats, dirs >>
  /\ UNCHANGED << chunk, active_topics, subscribers, bus_subs, data_queue,
                  num_data, f, data_dict, a_idx, data_group, is_shutdown,
                  clock, wall, dropped, taken >>

\* mutant: write_to_hdf5 returns without closing the file
WriteCloseSkipped(t) ==
  /\ Alive
  /\ pc[t] = "close"
  /\ pc' = [pc EXCEPT ![t] = Returned(t)]
  /\ data_group' = [data_group EXCEPT ![t] = 0]
  /\ UNCHANGED << env_vars, ats, dirs >>
  /\ UNCHANGED << chunk, active_topics, container, subscribers, bus_subs,
                  data_queue, num_data, files, f, data_dict, a_idx, w_idx,
                  is_shutdown, clock, wall, last_log, dropped, taken >>

\* line 163: f.close() closes whatever the global f is now
WriteClose(t) ==
  /\ Alive
  /\ pc[t] = "close"
  /\ files' = [files EXCEPT ![f].open = FALSE]
  /\ pc' = [pc EXCEPT ![t] = Returned(t)]
  /\ data_group' = [data_group EXCEPT ![t] = 0]
  /\ UNCHANGED << env_vars, ats, dirs >>
  /\ UNCHANGED << chunk, active_topics, container, subscribers, bus_subs,
                  data_queue, num_data, f, data_dict, a_idx, w_idx,
                  is_shutdown, clock, wall, last_log, dropped, taken >>

\* ------------------------------------------- timer_callback: lines 168-185
\* line 181
\* mutant: the comparison of line 181 made strict
flush_due_strict(n) == n > chunk

flush_due(n) == n >= chunk

\* mutant: a tick takes two records off the queue and keeps the first
TimerTickTwice ==
  /\ Alive
  /\ pc.timer = "idle"
  /\ ~is_shutdown
  /\ last_log' = "timer callback"
  /\ IF data_queue = <<>>
       THEN UNCHANGED << data_queue, data_dict, a_idx, pc, taken >>
       ELSE /\ data_dict' = Head(data_queue)
            /\ data_queue' = IF Len(data_queue) >= 2 THEN Tail(Tail(data_queue))
                             ELSE Tail(data_queue)
            /\ a_idx' = 1
            /\ pc' = [pc EXCEPT !.timer = "append"]
            /\ taken' = [taken EXCEPT ![f] = Append(@, Head(data_queue))]
  /\ UNCHANGED << env_vars, ats, dirs >>
  /\ UNCHANGED << chunk, active_topics, container, subscribers, bus_subs,
                  num_data, files, f, w_idx, data_group, is_shutdown, clock,
                  wall, dropped >>

\* lines 169-174: one tick; an empty queue ends it
TimerTick ==
  /\ Alive
  /\ pc.timer = "idle"
  /\ ~is_shutdown
  /\ last_log' = "timer callback"
  /\ IF data_queue = <<>>
       THEN UNCHANGED << data_queue, data_dict, a_idx, pc, taken >>
       ELSE /\ data_dict' = Head(data_queue)
            /\ data_queue' = Tail(data_queue)
            /\ a_idx' = 1
            /\ pc' = [pc EXCEPT !.timer = "append"]
            /\ taken' = [taken EXCEPT ![f] = Append(@, Head(data_queue))]
  /\ UNCHANGED << env_vars, ats, dirs >>
  /\ UNCHANGED << chunk, active_topics, container, subscribers, bus_subs,
                  num_data, files, f, w_idx, data_group, is_shutdown, clock,
                  wall, dropped >>

\* lines 177-182: one container[key].append(data); after the last one the
\* count goes up and is compared with chunk
TimerAppend ==
  /\ Alive
  /\ pc.timer = "append"
  /\ LET key == data_dict[a_idx][1]
         i == KeyIndex(container, key)
     IN container' = [container EXCEPT ![i].val = Append(@, data_dict[a_idx][2])]
  /\ IF a_idx < Len(data_dict)
       THEN /\ a_idx' = a_idx + 1
            /\ UNCHANGED << num_data, pc, data_dict, last_log >>
       ELSE /\ a_idx' = 0
            /\ data_dict' = <<>>
            /\ num_data' = num_data + 1
            /\ IF flush_due(num_data + 1)
                 THEN /\ pc' = [pc EXCEPT !.timer = "write"]
                      /\ last_log' = "Write data to disk"
                 ELSE /\ pc' = [pc EXCEPT !.timer = "idle"]
                      /\ UNCHANGED last_log
  /\ UNCHANGED << env_vars, ats, dirs >>
  /\ UNCHANGED << chunk, active_topics, subscribers, bus_subs, data_queue,
                  files, f, w_idx, data_group, is_shutdown, clock, wall,
                  dropped, taken >>

TimerWriteBegin == WriteBegin("timer")
TimerWriteItem == WriteItem("timer")
TimerWriteClose == WriteClose("timer")

\* the seconds time.strftime may read at the next call: the wall clock has
\* stayed within the second of the previous file or has moved on
Elapsed == {now \in {wall, wall + 1} : now <= MaxWall}

\* lines 184-185: the next file, and the count back to zero
TimerInit ==
  /\ Alive
  /\ pc.timer = "init"
  /\ \E now \in Elapsed :
       LET next == init_hdf5(output_dir, now, dirs)
       IN /\ wall' = now
          /\ dirs' = next.dirs
          /\ IF next.ok
               THEN /\ files' = Append(files, next.file)
                    /\ taken' = Append(taken, <<>>)
                    /\ f' = Len(files) + 1
                    /\ num_data' = 0
                    /\ pc' = [pc EXCEPT !.timer = "idle"]
               ELSE /\ pc' = [pc EXCEPT !.timer = "dead"]
                    /\ UNCHANGED << files, taken, f, num_data >>
  /\ UNCHANGED << env_vars, ats >>
  /\ UNCHANGED << chunk, active_topics, container, subscribers, bus_subs,
                  data_queue, data_dict, a_idx, w_idx, data_group,
                  is_shutdown, clock, last_log, dropped >>

\* ------------------------------------------------- main(): lines 274-285
\* how the wait loop ends: the key Q, KeyboardInterrupt (signal_shutdown),
\* or the node being shut down from outside
StopKinds == {"q", "interrupt", "shutdown"}

MainStop ==
  /\ pc.main = "recording"
  /\ \E kind \in StopKinds :
       is_shutdown' = (kind # "q")
  /\ pc' = [pc EXCEPT !.main = "write"]
  /\ UNCHANGED << env_vars, ats, dirs >>
  /\ UNCHANGED << chunk, active_topics, container, subscribers, bus_subs,
                  data_queue, num_data, files, f, data_dict, a_idx, w_idx,
                  data_group, clock, wall, last_log, dropped, taken >>

MainWriteBegin == WriteBegin("main")
MainWriteItem == WriteItem("main")
MainWriteClose == WriteClose("main")

\* line 373 and the end of the process
MainExit ==
  /\ pc.main = "cleanup"
  /\ pc' = [pc EXCEPT !.main = "exited"]
  /\ UNCHANGED << env_vars, ats, dirs >>
  /\ UNCHANGED << chunk, active_topics, container, subscribers, bus_subs,
                  data_queue, num_data, files, f, data_dict, a_idx, w_idx,
                  data_group, is_shutdown, clock, wall, last_log, dropped,
                  taken >>

Next ==
  \/ MainStart
  \/ Callback
  \/ TimerTick
  \/ TimerAppend
  \/ TimerWriteBegin
  \/ TimerWriteItem
  \/ TimerWriteClose
  \/ TimerInit
  \/ MainStop
  \/ MainWriteBegin
  \/ MainWriteItem
  \/ MainWriteClose
  \/ MainExit

Spec == Init /\ [][Next]_vars

\* ================================================= the synchronizers
\* msg_synchronizer (imported at line 19) is not part of the source given
\* here; its two policies are modelled from the specification's section 4.1.
\* Stamps are in milliseconds.

\* bounds of the bus side
MaxMsgs == 6

\* lines 264 and 267: queue_size=50, the depth of each channel's history
queue_size == 50

\* line 264: slop=0.01 seconds
\* mutant: the tolerance one millisecond short
slop_short == 10 - 1

slop == 10

\* the stamps a message may carry: some equal, some exactly the tolerance
\* apart, some one millisecond more than the tolerance apart
Times == {0, slop, slop + 1, 2 * slop + 1}

SyncArgs == {"absent", "False", "true"}

OutputDirs == {DataDir, "out"}

Abs(x) == IF x < 0 THEN -x ELSE x

Max(S) == CHOOSE x \in S : \A y \in S : y <= x

Min(S) == CHOOSE x \in S : \A y \in S : x <= y

\* the history of one channel after a message joined it: the oldest message
\* goes when the depth is exceeded
buffered(q, msg) ==
  LET q1 == Append(q, msg)
  IN IF Len(q1) > queue_size THEN Tail(q1) ELSE q1

\* the combinations of one buffered message per channel (as positions in the
\* histories) that take the new message, the last of channel i
Combinations(h, i) ==
  IF \E j \in 1..Len(h) : h[j] = <<>> THEN {}
  ELSE {c \in [1..Len(h) -> 1..Max({Len(h[j]) : j \in 1..Len(h)})] :
          /\ \A j \in 1..Len(h) : c[j] <= Len(h[j])
          /\ c[i] = Len(h[i])}

StampsOf(h, c) == {h[j][c[j]].stamp : j \in 1..Len(h)}

Spread(h, c) == Max(StampsOf(h, c)) - Min(StampsOf(h, c))

RECURSIVE Distance(_, _, _, _)
Distance(h, c, t, j) ==
  IF j > Len(h) THEN 0
  ELSE Abs(h[j][c[j]].stamp - t) + Distance(h, c, t, j + 1)

\* the combinations of minimum spread and, among these, the ones closest to
\* the new message's stamp
Closest(h, i) ==
  LET all == Combinations(h, i)
      t == h[i][Len(h[i])].stamp
      tight == {c \in all : \A d \in all : Spread(h, c) <= Spread(h, d)}
  IN {c \in tight : \A d \in tight :
        Distance(h, c, t, 1) <= Distance(h, d, t, 1)}

\* mutant: only the used messages leave the histories
discard_used_only(h, c) ==
  [j \in 1..Len(h) |->
     SelectSeq(h[j], LAMBDA m : m.stamp # h[j][c[j]].stamp)]

\* every channel loses the messages older than or equal to the one used
discard(h, c) ==
  [j \in 1..Len(h) |->
     SelectSeq(h[j], LAMBDA m : m.stamp > h[j][c[j]].stamp)]

\* approximate match: what an arrival on channel i may result in, the
\* histories afterwards and the tuple emitted (<<>> when none is)
ApproximateTimeSynchronizer_add(h0, i, msg) ==
  LET h == [h0 EXCEPT ![i] = buffered(@, msg)]
      best == Closest(h, i)
  IN IF best = {} \/ \A c \in best : Spread(h, c) > slop
       THEN {[history |-> h, out |-> <<>>]}
       ELSE {[history |-> discard(h, c),
              out |-> [j \in 1..Len(h) |-> h[j][c[j]]]] : c \in best}

\* exact match: a tuple is emitted when the newest unconsumed message of
\* every channel carries the same stamp
TimeSynchronizer_add(h0, i, msg) ==
  LET h == [h0 EXCEPT ![i] = buffered(@, msg)]
      newest == [j \in 1..Len(h) |-> Len(h[j])]
  IN IF (\A j \in 1..Len(h) : h[j] # <<>>)
          /\ Cardinality(StampsOf(h, newest)) = 1
       THEN {[history |-> [j \in 1..Len(h) |-> SubSeq(h[j], 1, Len(h[j]) - 1)],
              out |-> [j \in 1..Len(h) |-> h[j][newest[j]]]]}
       ELSE {[history |-> h, out |-> <<>>]}

add(h, i, msg) ==
  IF ats = "ApproximateTimeSynchronizer"
    THEN ApproximateTimeSynchronizer_add(h, i, msg)
    ELSE TimeSynchronizer_add(h, i, msg)

\* one message with stamp t delivered on the topic of subscriber i: the
\* synchronizer takes it and, when it emits a tuple, calls callback with it
Deliver(i, t) ==
  /\ Alive
  /\ pc.main # "main"
  /\ ~is_shutdown
  /\ arrived' = arrived + 1
  /\ last_stamp' = [last_stamp EXCEPT ![i] = t]
  /\ \E r \in add(history, i, [topic |-> subscribers[i], stamp |-> t, ok |-> TRUE]) :
       /\ history' = r.history
       /\ IF r.out = <<>>
            THEN UNCHANGED << data_queue, last_log, dropped, clock, emitted >>
            ELSE LET data == make_data(r.out, Keys(container))
                     put == put_nowait(data_queue, data)
                 IN /\ data_queue' = put.queue
                    /\ last_log' = IF put.raised THEN "Queue full"
                                   ELSE "msg callback"
                    /\ dropped' = IF put.raised
                                    THEN dropped \cup {r.out[1].stamp}
                                    ELSE dropped
                    /\ clock' = clock + 1
                    /\ emitted' = Append(emitted, r.out)
  /\ UNCHANGED << sync_arg, output_dir, ats, dirs >>
  /\ UNCHANGED << chunk, active_topics, container, subscribers, bus_subs,
                  num_data, files, f, pc, data_dict, a_idx, w_idx, data_group,
                  is_shutdown, wall, taken >>

\* the bus delivers any message that is newer than the last one of its topic
Arrive ==
  /\ arrived < MaxMsgs
  /\ \E i \in 1..Len(subscribers), t \in Times :
       /\ t > last_stamp[i]
       /\ Deliver(i, t)
  /\ UNCHANGED script

\* the bus delivers the next message of the script
ArriveScripted ==
  /\ script # <<>>
  /\ \E i \in 1..Len(subscribers) :
       /\ subscribers[i] = Head(script).topic
       /\ Deliver(i, Head(script).stamp)
  /\ script' = Tail(script)

\* the recorder with its synchronizer, for every way of giving --sync and
\* --output_dir, fed message by message
InitSync ==
  \E act \in ActiveTopicSets, sa \in SyncArgs, od \in OutputDirs,
     pre \in SUBSET {DataDir} :
    InitState(MaxChunk, act, sa, od, pre, <<>>)

NextSync ==
  \/ MainStart
  \/ Arrive
  \/ TimerTick
  \/ TimerAppend
  \/ TimerWriteBegin
  \/ TimerWriteItem
  \/ TimerWriteClose
  \/ TimerInit

SpecSync == InitSync /\ [][NextSync]_vars

\* the scenario of the specification's section 8: image, depth and pose
\* channels, --sync False (tolerance 0.01 s), chunk size 3 and nine messages
Scenario ==
  << [topic |-> stereoL_topic, stamp |-> 0],
     [topic |-> depth_topic, stamp |-> 3],
     [topic |-> PoseTopic("drill"), stamp |-> 5],
     [topic |-> stereoL_topic, stamp |-> 100],
     [topic |-> depth_topic, stamp |-> 101],
     [topic |-> PoseTopic("drill"), stamp |-> 103],
     [topic |-> stereoL_topic, stamp |-> 200],
     [topic |-> depth_topic, stamp |-> 202],
     [topic |-> PoseTopic("drill"), stamp |-> 205] >>

InitScenario ==
  InitState(3, OtherTopics \cup ConfiguredTopics, "False", DataDir, {DataDir},
            Scenario)

NextScenario ==
  \/ MainStart
  \/ ArriveScripted
  \/ TimerTick
  \/ TimerAppend
  \/ TimerWriteBegin
  \/ TimerWriteItem
  \/ TimerWriteClose
  \/ TimerInit

SpecScenario == InitScenario /\ [][NextScenario]_vars

\* ======================================================== properties
\* a step of callback: the only action that advances clock
CallbackStep == clock' = clock + 1

\* the stamp a record carries in its time field
StampOf(rec) == rec[1][2][2]

Stamps(recs) == {StampOf(recs[i]) : i \in 1..Len(recs)}

\* stamps of the payloads of one list of a container or of a dataset
ValStamps(val) == {val[i][Len(val[i])] : i \in {j \in 1..Len(val) : val[j] # None}}

\* stamps found anywhere downstream of the queue's tail
DeliveredStamps ==
  Stamps(data_queue)
    \cup (IF data_dict = <<>> THEN {} ELSE {StampOf(data_dict)})
    \cup UNION {ValStamps(container[i].val) : i \in 1..Len(container)}
    \cup UNION {Stamps(taken[u]) : u \in 1..Len(taken)}
    \cup UNION {UNION {ValStamps(files[u].data[i].val) :
                         i \in 1..Len(files[u].data)} : u \in 1..Len(files)}

\* the integer counters the program keeps
ProgramCounters == << num_data >>

\* C1 (as stated): whenever callback meets a full queue it returns at once,
\* no exception escapes, and a drop counter goes up by one.
C1_DropCounterIncremented ==
  [][(CallbackStep /\ full(data_queue)) =>
       /\ pc' = pc
       /\ \E i \in DOMAIN ProgramCounters :
            ProgramCounters'[i] = ProgramCounters[i] + 1]_vars

\* C1 (amended): whenever callback meets a full queue it returns at once (no
\* thread changes position, nothing waits), no exception escapes, and the
\* drop is reported only as the debug line "Queue full": no counter changes
\* and the queue, the container and the files are untouched.
C1_FullEnqueueReturnsAndLogs ==
  [][(CallbackStep /\ full(data_queue)) =>
       /\ pc' = pc
       /\ last_log' = "Queue full"
       /\ ProgramCounters' = ProgramCounters
       /\ data_queue' = data_queue
       /\ container' = container
       /\ files' = files]_vars

C1_Witness ==
  /\ last_log = "Queue full"
  /\ dropped # {}
  /\ Len(data_queue) = maxsize

\* C2 (as stated): for every chunk_size the queue never holds more than
\* 2 * chunk_size records.
C2_QueueBoundedForEveryChunk == Len(data_queue) <= 2 * chunk

\* C2 (amended): for every chunk_size >= 1 the queue never holds more than
\* 2 * chunk_size records (for chunk_size <= 0 the queue is unbounded).
C2_QueueBoundedForPositiveChunk ==
  chunk >= 1 => Len(data_queue) <= 2 * chunk

C2_Witness ==
  /\ chunk >= 1
  /\ Len(data_queue) = 2 * chunk
  /\ pc.timer = "append"

\* C3: when an enqueue meets a full queue the new record is the one
\* discarded: the queue is the same before and after, and the dropped record
\* never shows up in the queue, the timer, the container or a file.
C3_FullEnqueueDropsNewRecord ==
  /\ [][(CallbackStep /\ full(data_queue)) => data_queue' = data_queue]_vars
  /\ [](dropped \cap DeliveredStamps = {})

C3_Witness ==
  /\ dropped # {}
  /\ \E u \in 1..Len(files) : files[u].data # <<>>
  /\ data_queue = <<>>

\* the timer thread enters write_to_hdf5 in this step
TimerFlushStarts == pc.timer # "write" /\ pc'.timer = "write"

\* the timer thread completes lines 183-185 in this step
TimerFlushEnds == pc.timer = "init" /\ pc'.timer = "idle"

ContainerEmpty(c) == \A i \in 1..Len(c) : c[i].val = <<>>

\* file u holds exactly n records: one dataset per field, n entries each
HoldsExactly(u, n) ==
  /\ Len(files[u].data) = Len(container)
  /\ \A i \in 1..Len(files[u].data) : Len(files[u].data[i].val) = n

\* the statement of C4 for the chunk sizes in S: what a step may do
ChunkExactStep(S) ==
  /\ (chunk \in S /\ TimerFlushStarts) => num_data' = chunk
  /\ (chunk \in S /\ num_data' = num_data + 1 /\ num_data' = chunk) =>
       pc'.timer = "write"
  /\ (chunk \in S /\ TimerFlushEnds) =>
       /\ ContainerEmpty(container')
       /\ num_data' = 0
       /\ Len(files') = Len(files) + 1

\* the statement of C4 for the chunk sizes in S: what holds in every state
ChunkExactState(S) ==
  chunk \in S => \A u \in 1..(Len(files) - 1) : HoldsExactly(u, chunk)

Field(rec, key) == rec[CHOOSE i \in 1..Len(rec) : rec[i][1] = key][2]

\* what the dataset of key holds when it is made of the records recs
Column(recs, key) == [i \in 1..Len(recs) |-> Field(recs[i], key)]

\* C5: in every Output Unit the dataset of every field holds exactly the
\* payloads of the records dequeued into that chunk, one per record, in
\* the order of arrival; once the process has ended no field is missing.
C5_DatasetsHoldTheDequeuedRecords ==
  \A u \in 1..Len(files) :
    /\ \A i \in 1..Len(files[u].data) :
         files[u].data[i].val = Column(taken[u], files[u].data[i].key)
    /\ (~Alive /\ taken[u] # <<>>) =>
         \A i \in 1..Len(container) : HasKey(files[u].data, container[i].key)

\* the main thread has left the wait loop: the final flush has begun
FinalFlushBegun == pc.main \in {"write", "items", "close", "cleanup"}

\* C6: on a graceful stop no further tick starts, then one final flush
\* runs, then the file is closed: after the final flush has begun the timer
\* thread takes no step (no dequeue, no append, no flush, no new file).
C6_NoTimerStepAfterFinalFlushBegins ==
  [][FinalFlushBegun =>
       /\ pc'.timer = pc.timer
       /\ a_idx' = a_idx
       /\ w_idx'.timer = w_idx.timer
       /\ Len(files') = Len(files)]_vars

InWrite(t) == pc[t] \in {"write", "items", "close"}

\* the timer thread can still take a step of timer_callback
TimerCanRun ==
  Alive /\ (pc.timer \in {"append", "write", "items", "close", "init"}
              \/ (pc.timer = "idle" /\ ~is_shutdown))

\* C7: container, num_data and f belong to the timer thread alone: the main
\* thread is never inside write_to_hdf5 while the timer thread can still
\* run, so two executions of write_to_hdf5 never overlap.
C7_BufferOwnedByTimerThread ==
  /\ InWrite("main") => ~TimerCanRun
  /\ ~(InWrite("main") /\ InWrite("timer"))

\* a record with a payload that is None
RecHasNone(rec) == \E i \in 1..Len(rec) : rec[i][2] = None

\* C8: a message the decoder fails on is skipped: no record with a None
\* payload reaches the queue, the timer, the container or a file.
C8_NoNonePayloadDownstream ==
  /\ \A i \in 1..Len(data_queue) : ~RecHasNone(data_queue[i])
  /\ data_dict # <<>> => ~RecHasNone(data_dict)
  /\ \A i \in 1..Len(container) : ~HasNone(container[i].val)
  /\ \A u \in 1..Len(files) :
       \A i \in 1..Len(files[u].data) : ~HasNone(files[u].data[i].val)

\* the channels the configuration asks for, with their container keys
ConfiguredChannels ==
  { [topic |-> stereoL_topic, key |-> "l_img"],
    [topic |-> depth_topic, key |-> "depth"],
    [topic |-> PoseTopic("drill"), key |-> PoseKey("drill")] }

InactiveChannels == {ch \in ConfiguredChannels : ch.topic \notin active_topics}

\* the process ended inside setup_subscriber (line 195)
ExitedAtStartup == pc.main = "exited" /\ pc.timer = "off"

\* no field of channel ch anywhere: container, queue, timer, files
NoFieldOf(ch) ==
  /\ ~HasKey(container, ch.key)
  /\ \A i \in 1..Len(data_queue) :
       \A j \in 1..Len(data_queue[i]) : data_queue[i][j][1] # ch.key
  /\ \A j \in 1..Len(data_dict) : data_dict[j][1] # ch.key
  /\ \A u \in 1..Len(files) : ~HasKey(files[u].data, ch.key)

\* the channels that are active are all recorded
ActiveChannelsRegistered ==
  \A ch \in ConfiguredChannels \ InactiveChannels :
    /\ ch.topic \in Range(subscribers)
    /\ HasKey(container, ch.key)

\* C9 (as stated): a configured channel that is not active at startup is
\* skipped without stopping the process: no subscription and no container
\* field are registered for it, the other channels are recorded, and no
\* Output Unit ever holds a dataset for it.
C9_InactiveChannelSkipped ==
  pc.main # "main" =>
    \A ch \in InactiveChannels :
      /\ ~ExitedAtStartup
      /\ ch.topic \notin bus_subs
      /\ ch.topic \notin Range(subscribers)
      /\ NoFieldOf(ch)
      /\ ActiveChannelsRegistered

\* C9 (amended): when more than two topics are active at startup, a
\* configured channel that is not active is skipped without stopping the
\* process: it is not among the synchronizer's subscribers and has no
\* container field, the other channels are recorded, and no Output Unit ever
\* holds a dataset for it.  (With at most two active topics the process
\* exits at startup; for an inactive pose channel a bus Subscriber object
\* is still built, and left unused.)
C9_InactiveChannelSkippedWhenRecording ==
  (pc.main # "main" /\ Cardinality(active_topics) > 2) =>
    \A ch \in InactiveChannels :
      /\ ~ExitedAtStartup
      /\ ch.topic \notin Range(subscribers)
      /\ NoFieldOf(ch)
      /\ ActiveChannelsRegistered

C9_Witness ==
  /\ \E ch \in InactiveChannels : ch.topic \in bus_subs
  /\ \E u \in 1..Len(files) : ~files[u].open /\ files[u].data # <<>>
  /\ pc.main = "exited"

SameLength(c) == \A i, j \in 1..Len(c) : Len(c[i].val) = Len(c[j].val)

\* C10: at every flush all sequences of the container have the same
\* length, and right after the flush every sequence is empty.
C10_EqualLengthsAtFlush ==
  \A t \in {"main", "timer"} :
    /\ pc[t] = "write" => SameLength(container)
    /\ pc[t] = "close" => ContainerEmpty(container)

\* ------------------------------------------------------------------ C11
\* the files that are open for writing
OpenUnits == {u \in 1..Len(files) : files[u].open}

\* a step that creates a file
Rotation == Len(files') = Len(files) + 1

\* C11: whenever a file is created every earlier file is already closed, at
\* most one file is open at any time, and a dataset is only ever added to a
\* file that is open.
C11_OneOpenUnitAndNoWriteAfterClose ==
  /\ [](Cardinality(OpenUnits) <= 1)
  /\ [][/\ Rotation => \A u \in 1..Len(files) : ~files[u].open
        /\ \A u \in 1..Len(files) :
             files'[u].data # files[u].data => files[u].open]_vars

\* a rotation has happened: the first file holds a chunk and is closed, the
\* second one is open
C11_Witness ==
  /\ Len(files) >= 2
  /\ files[1].data # <<>>
  /\ ~files[1].open
  /\ files[2].open

\* ------------------------------------------------------------------ C12
Approximate == ats = "ApproximateTimeSynchronizer"

\* a step in which the synchronizer emits a tuple
Emits == Len(emitted') = Len(emitted) + 1

\* a step in which the bus delivers one message
Arrival == arrived' = arrived + 1

\* C12: under the approximate-match policy no message is used in two emitted
\* tuples, successive tuples use strictly newer messages on every channel,
\* an emission leaves in every history only messages newer than the one
\* used, and a step emits at most one tuple and only on an arrival.
C12_NoMessageUsedTwice ==
  /\ [](Approximate =>
         \A k \in 1..Len(emitted), l \in 1..Len(emitted) :
           k < l => \A j \in 1..Len(subscribers) :
                      emitted[k][j].stamp < emitted[l][j].stamp)
  /\ [][Approximate =>
          /\ emitted' # emitted => Emits /\ Arrival
          /\ Emits =>
               /\ SubSeq(emitted', 1, Len(emitted)) = emitted
               /\ \A j \in 1..Len(subscribers) :
                    \A n \in 1..Len(history'[j]) :
                      history'[j][n].stamp > emitted'[Len(emitted')][j].stamp]_vars

\* two tuples were emitted on two channels out of five messages, and the
\* fifth, older than a used one, left its history without being used
C12_Witness ==
  /\ Approximate
  /\ Len(subscribers) = 2
  /\ Len(emitted) = 2
  /\ arrived = 5
  /\ \A j \in 1..Len(subscribers) : history[j] = <<>>

\* ------------------------------------------------------------------ C13
TupleSpread(tuple) ==
  Max({tuple[j].stamp : j \in 1..Len(tuple)})
    - Min({tuple[j].stamp : j \in 1..Len(tuple)})

\* the histories right after the message of this step joined channel i
Buffered(i) ==
  [history EXCEPT ![i] = buffered(@, [topic |-> subscribers[i],
                                      stamp |-> last_stamp'[i], ok |-> TRUE])]

\* C13: with the tolerance of 0.01 s (10 ms) an arrival emits a tuple
\* exactly when some combination with the new message has a spread of at
\* most 10 ms, so a spread of exactly 10 ms is accepted; no emitted tuple has
\* a spread above 10 ms; nothing is emitted while a history is empty.
C13_ToleranceBoundary ==
  /\ [](Approximate =>
         \A k \in 1..Len(emitted) : TupleSpread(emitted[k]) <= 10)
  /\ [][Approximate /\ Arrival =>
          \A i \in 1..Len(subscribers) :
            last_stamp'[i] # last_stamp[i] =>
              /\ Emits <=> \E c \in Combinations(Buffered(i), i) :
                             Spread(Buffered(i), c) <= 10
              /\ (\E j \in 1..Len(subscribers) : Buffered(i)[j] = <<>>)
                   => emitted' = emitted]_vars

\* a tuple whose spread is exactly the tolerance was emitted, and a message
\* that was further away from the others is still waiting
C13_Witness ==
  /\ Approximate
  /\ \E k \in 1..Len(emitted) : TupleSpread(emitted[k]) = 10
  /\ \E j \in 1..Len(subscribers) : history[j] # <<>>

\* ------------------------------------------------------------------ C14
\* every message of the scenario has arrived and the timer has nothing left
ScenarioDone ==
  /\ script = <<>>
  /\ data_queue = <<>>
  /\ pc = [main |-> "recording", timer |-> "idle"]

ScenarioTuples ==
  << <<0, 3, 5>>, <<100, 101, 103>>, <<200, 202, 205>> >>

EmittedStamps ==
  [k \in 1..Len(emitted) |->
     [j \in 1..Len(emitted[k]) |-> emitted[k][j].stamp]]

\* C14: in the scenario the synchronizer emits exactly the three tuples
\* (0,3,5), (100,101,103), (200,202,205) and none is dropped; the only
\* flush starts once the third record is accumulated, and when everything
\* is consumed the first file holds the three records and a second, empty
\* file is current.
C14_ScenarioThreeRecordsOneFlush ==
  /\ Len(emitted) <= 3
  /\ EmittedStamps = SubSeq(ScenarioTuples, 1, Len(emitted))
  /\ dropped = {}
  /\ Len(files) <= 2
  /\ (Len(files) = 2 \/ pc.timer \in {"write", "items", "close", "init"})
       => Len(taken[1]) = 3
  /\ ScenarioDone =>
       /\ Len(emitted) = 3
       /\ Len(files) = 2
       /\ ~files[1].open
       /\ Keys(files[1].data) = <<"time", "l_img", "depth", "pose_drill">>
       /\ files[1].data[1].val = << to_sec(0), to_sec(100), to_sec(200) >>
       /\ \A i \in 1..Len(files[1].data) : Len(files[1].data[i].val) = 3
       /\ files[2].data = <<>>
       /\ ContainerEmpty(container)
       /\ num_data = 0

C14_Witness ==
  /\ ScenarioDone
  /\ Len(emitted) = 3
  /\ Len(files) = 2
  /\ Len(files[1].data) = 4

\* ------------------------------------------------------------------ C15
\* init_hdf5 failed at line 99 before any file existed
FailedAtStartup == pc.main = "crashed" /\ files = <<>>

\* C15 (as stated): every file is created inside the directory --output_dir
\* names, and that directory exists by then, so no creation fails for the
\* lack of its directory.
C15_UnitsInsideOutputDir ==
  /\ \A u \in 1..Len(files) : files[u].dir = output_dir /\ files[u].dir \in dirs
  /\ ~FailedAtStartup

\* ------------------------------------------------------------------ C16
\* main() has built its synchronizer
Built == ats # "none"

\* C16 (as stated): with --sync left out the approximate-match policy is
\* built, and the exact-match policy only when --sync was given.
C16_ApproximateByDefault ==
  Built => /\ sync_arg = "absent" => Approximate
           /\ ats = "TimeSynchronizer" => sync_arg # "absent"

\* C16 (amended): with --sync left out, or given as True, true or 1, the
\* exact-match policy is built; the approximate-match policy is built only
\* when --sync was given with another value.
C16_ExactByDefault ==
  Built => /\ sync_arg \in {"absent", "True", "true", "1"}
                => ats = "TimeSynchronizer"
           /\ Approximate => sync_arg \notin {"absent", "True", "true", "1"}

\* started without --sync, the exact-match synchronizer has emitted a tuple
C16_Witness ==
  /\ sync_arg = "absent"
  /\ ats = "TimeSynchronizer"
  /\ Len(subscribers) >= 2
  /\ Len(emitted) >= 1

\* ------------------------------------------------------------------ C17
\* a step that writes the timer's log line; only timer_callback does
TickLogged == last_log' = "timer callback" /\ last_log # "timer callback"

\* C17: the queue only ever loses its head, one record in a step, and only
\* in the step in which the idle timer starts a tick, so a tick dequeues at
\* most once; a tick that finds the queue empty ends at once and leaves the
\* container, the count, the current file, the files and the queue as they
\* were.
C17_TickDequeuesAtMostOnce ==
  [][/\ Len(data_queue') < Len(data_queue) =>
          /\ data_queue' = Tail(data_queue)
          /\ pc.timer = "idle"
          /\ pc'.timer = "append"
     /\ TickLogged /\ data_queue = <<>> =>
          /\ pc' = pc
          /\ UNCHANGED << container, num_data, f, files, data_queue,
                          data_dict >>]_vars

\* the timer has ticked on the empty queue before any tuple arrived
C17_Witness ==
  /\ pc = [main |-> "recording", timer |-> "idle"]
  /\ clock = 0
  /\ data_queue = <<>>
  /\ last_log = "timer callback"

\* ------------------------------------------------------------------ C18
\* the topic configured for a field name, and what that field's decoder
\* returns for a message it can convert
TopicOf(key) == (CHOOSE ch \in ConfiguredChannels : ch.key = key).topic

KindOf(key) ==
  IF IsImageKey(key) THEN "bgr8" ELSE IF key = "depth" THEN "depth" ELSE "pose"

\* every record built so far: queued, in the timer's hands, or taken earlier
RecordsBuilt ==
  Range(data_queue)
    \cup (IF data_dict = <<>> THEN {} ELSE {data_dict})
    \cup UNION {Range(taken[u]) : u \in 1..Len(taken)}

\* the payload under `key` comes from that field's topic through that
\* field's decoder (None being what the image decoder returns on failure)
OwnPayload(key, payload) ==
  \/ IsImageKey(key) /\ payload = None
  \/ payload # None /\ payload[1] = KindOf(key) /\ payload[2] = TopicOf(key)

\* C18: for every set of active topics the i-th subscriber is the topic of
\* the i-th key after time, every record has exactly the container's keys in
\* the container's order, and every payload is its own field's.
C18_SubscribersAlignedWithKeys ==
  pc.main # "main" /\ ~ExitedAtStartup =>
    /\ Len(subscribers) = Len(container) - 1
    /\ \A i \in 1..Len(subscribers) :
         subscribers[i] = TopicOf(container[i + 1].key)
    /\ \A rec \in RecordsBuilt :
         /\ [k \in 1..Len(rec) |-> rec[k][1]] = Keys(container)
         /\ \A k \in 2..Len(rec) : OwnPayload(rec[k][1], rec[k][2])

\* image, depth and pose are recorded and a record with all three is queued
C18_Witness ==
  /\ Len(subscribers) = 3
  /\ \E i \in 1..Len(data_queue) :
       /\ Len(data_queue[i]) = 4
       /\ ~RecHasNone(data_queue[i])

\* ------------------------------------------------------------------ C19
\* h5py.File(path, "w") truncates: what a file held is on disk only as long
\* as no later file was created under the same name
Persisted(u) ==
  \A v \in 1..Len(files) : v > u => files[v].name # files[u].name

\* C19 (as stated): every file gets a name no earlier file has, also within
\* one wall-clock second, so no file that holds a flushed chunk is ever
\* truncated by a later one.
C19_DistinctNamesNoOverwrite ==
  /\ \A u \in 1..Len(files), v \in 1..Len(files) :
       u # v => files[u].name # files[v].name
  /\ \A u \in 1..Len(files) : files[u].data # <<>> => Persisted(u)

\* ------------------------------------------------------------------ C20
\* the stamps of the rows of the time dataset of file u
TimeRows(u) ==
  UNION {ValStamps(files[u].data[i].val) :
           i \in {j \in 1..Len(files[u].data) : files[u].data[j].key = "time"}}

\* the stamps of the records callback put into the queue
Accepted == (1..clock) \ dropped

\* C20 (as stated): once the recorder has exited after a stop, every record
\* that was accepted into the queue is in exactly one file that is still on
\* disk.
C20_AcceptedRecordsPersistedAtExit ==
  pc.main = "exited" /\ ~ExitedAtStartup =>
    \A s \in Accepted :
      Cardinality({u \in 1..Len(files) : Persisted(u) /\ s \in TimeRows(u)}) = 1

====
